---- MODULE Spec2Model ----
(***************************************************************************)
(* The merge queue Engineer of internal/refinery/engineer.go: its          *)
(* configuration loader (LoadConfig), its main loop (Run, Stop) and one    *)
(* processing cycle (processOnce, ProcessMR, handleFailure), run against   *)
(* the beads tracker.                                                      *)
(***************************************************************************)
EXTENDS Integers, Sequences, FiniteSets, TLC

VARIABLES
    doc,          \* the rig's config.json as LoadConfig finds it
    config,       \* e.config
    loadErr,      \* what the last LoadConfig call returned ("unset" before any)
    pc,           \* where Run is
    runResult,    \* how Run ended: "none", "nil", "error", "panic"
    ctxDone,      \* ctx.Done() is closed
    stopClosed,   \* e.stopCh is closed
    stopPanic,    \* a Stop call closed the closed channel
    tickC,        \* ticker.C: the ticks held, each with when it fired ("cycle", "wait", "stale")
    tickTaken,    \* when the tick that began the current (or last) cycle had fired ("none": no tick)
    status,       \* the tracker's store: item -> status
    hasFields,    \* item -> its description carries the MR fields
    pipeline,     \* which ProcessMR runs: the placeholder of the source or the designed one
    readyMRs,     \* processOnce's readyMRs
    queryErr,     \* the ready query of this cycle returned an error
    mr,           \* processOnce's mr (<<>> while none is selected)
    result,       \* processOnce's result (<<>> before ProcessMR returned)
    stages,       \* the stages the last ProcessMR call went through, in order
    cycleErr,     \* what the last processOnce call returned
    calls,        \* the tracker and pipeline calls of the current (or last) cycle, in order
    cycleKind,    \* "none", "first" (line 194) or "tick" (line 207)
    sigAtTick,    \* the shutdown signals that were up when the select took the tick
    everCycle,    \* some processOnce call has started
    everCall,     \* some tracker call has been issued
    status0,      \* the tracker's store when the current (or last) cycle began
    driving,      \* the items a processOnce call has claimed and not yet reconciled
    sev,          \* the severity of an escalation
    sevPrev,      \* the severity before the last getNextSeverity step
    sevSteps,     \* the getNextSeverity steps taken
    actions,      \* the action strings of an escalation route
    targets,      \* <<>> or <<what extractMailTargetsFromActions returned>>
    mailArgs,     \* the arguments of formatEscalationMailBody
    mailBody      \* <<>> or <<the lines formatEscalationMailBody returned>>

escVars == <<sev, sevPrev, sevSteps, actions, targets, mailArgs, mailBody>>
cfgVars == <<doc, config, loadErr>>
loopVars == <<pc, runResult, ctxDone, stopClosed, stopPanic, tickC, tickTaken>>
trackerVars == <<status, hasFields, pipeline>>
cycleVars == <<readyMRs, queryErr, mr, result, stages, cycleErr, calls, cycleKind, sigAtTick,
               everCycle, everCall, status0>>
\* A tick waits in ticker.C.
tickPending == tickC # <<>>

vars == <<doc, config, loadErr, pc, runResult, ctxDone, stopClosed, stopPanic,
          tickC, tickTaken, status, hasFields, pipeline, readyMRs, queryErr, mr, result, stages,
          cycleErr, calls, cycleKind, sigAtTick, everCycle, everCall, status0, driving,
          sev, sevPrev, sevSteps, actions, targets, mailArgs, mailBody>>

(***************************************************************************)
(* Bounds.                                                                 *)
(***************************************************************************)
\* The most keys a merge_queue section of the configuration inputs carries.
MaxKeys == 3
\* The number of merge-request items in the tracker.
NumItems == 2
\* The most getNextSeverity steps taken on one escalation.
MaxEscalations == 4
\* The most action strings of one escalation route.
MaxActions == 2
\* The most additional test attempts (retry_flaky_tests) of the pipeline inputs.
MaxRetry == 2

(***************************************************************************)
(* Durations.  A time.Duration is kept in milliseconds (the source counts  *)
(* nanoseconds in 64 bits); the duration strings drawn below use no unit   *)
(* smaller than "ms" and no fraction.  A string is a tuple of characters.  *)
(***************************************************************************)
Digits == {"0", "1", "2", "3", "4", "5", "6", "7", "8", "9"}

DigitVal(c) ==
    CASE c = "0" -> 0 [] c = "1" -> 1 [] c = "2" -> 2 [] c = "3" -> 3 [] c = "4" -> 4
      [] c = "5" -> 5 [] c = "6" -> 6 [] c = "7" -> 7 [] c = "8" -> 8 [] c = "9" -> 9

\* time.unitMap, for the units a millisecond count can express (0: no such unit)
UnitMap(u) ==
    CASE u = <<"m", "s">> -> 1
      [] u = <<"s">> -> 1000
      [] u = <<"m">> -> 60 * 1000
      [] u = <<"h">> -> 60 * 60 * 1000
      [] OTHER -> 0

Second == UnitMap(<<"s">>)

Drop(s, n) == SubSeq(s, n + 1, Len(s))

\* time.leadingInt: the leading digits of s as a number, and what follows them
RECURSIVE LeadingInt(_, _)
LeadingInt(s, acc) ==
    IF s # <<>> /\ s[1] \in Digits
    THEN LeadingInt(Tail(s), acc * 10 + DigitVal(s[1]))
    ELSE [v |-> acc, rest |-> s]

\* the length of the unit: the characters up to the next digit or "."
RECURSIVE UnitLen(_)
UnitLen(s) ==
    IF s = <<>> \/ s[1] \in Digits \/ s[1] = "." THEN 0 ELSE 1 + UnitLen(Tail(s))

\* the loop of time.ParseDuration over ([0-9]+[a-z]+)+
RECURSIVE ParseTerms(_, _)
ParseTerms(s, d) ==
    IF s = <<>> THEN [ok |-> TRUE, d |-> d]
    ELSE IF s[1] \notin Digits THEN [ok |-> FALSE, d |-> 0]
    ELSE LET li == LeadingInt(s, 0)
             n == UnitLen(li.rest)
             u == SubSeq(li.rest, 1, n)
         IN IF n = 0 THEN [ok |-> FALSE, d |-> 0]             \* missing unit
            ELSE IF UnitMap(u) = 0 THEN [ok |-> FALSE, d |-> 0]   \* unknown unit
            ELSE ParseTerms(Drop(li.rest, n), d + li.v * UnitMap(u))

\* time.ParseDuration: [ok, d]
ParseDuration(str) ==
    LET neg == str # <<>> /\ str[1] = "-"
        s == IF str # <<>> /\ str[1] \in {"-", "+"} THEN Tail(str) ELSE str
    IN IF s = <<"0">> THEN [ok |-> TRUE, d |-> 0]
       ELSE IF s = <<>> THEN [ok |-> FALSE, d |-> 0]
       ELSE LET r == ParseTerms(s, 0)
            IN IF r.ok /\ neg THEN [ok |-> TRUE, d |-> 0 - r.d] ELSE r

(***************************************************************************)
(* Configuration.                                                          *)
(***************************************************************************)
DefaultMergeQueueConfig ==
    [Enabled |-> TRUE,
     TargetBranch |-> "main",
     IntegrationBranches |-> TRUE,
     OnConflict |-> "assign_back",
     RunTests |-> TRUE,
     TestCommand |-> "",
     DeleteMergedBranches |-> TRUE,
     RetryFlakyTests |-> 1,
     PollInterval |-> 30 * Second,
     MaxConcurrent |-> 1]

\* A pointer field of mqRaw: <<>> is nil, <<v>> points to v.
Opt(S) == {<<>>} \cup {<<v>> : v \in S}

\* The poll_interval strings of the configuration inputs.
PollStrings ==
    {<<"3", "0", "s">>, <<"5", "m">>, <<"1", "m", "3", "0", "s">>, <<"2", "5", "0", "m", "s">>,
     <<"0">>, <<"0", "s">>, <<"-", "5", "s">>,
     <<>>, <<"3", "0">>, <<"s">>, <<"1", "0", "x">>,
     <<"n", "o", "t", "a", "d", "u", "r", "a", "t", "i", "o", "n">>}

\* What json.Unmarshal can leave in mqRaw: every key absent or present with a value.
MQRaws ==
    [Enabled : Opt(BOOLEAN),
     TargetBranch : Opt({"release", ""}),
     IntegrationBranches : Opt(BOOLEAN),
     OnConflict : Opt({"auto_rebase", "bogus"}),
     RunTests : Opt(BOOLEAN),
     TestCommand : Opt({"go test ./..."}),
     DeleteMergedBranches : Opt(BOOLEAN),
     RetryFlakyTests : Opt({0, 3}),
     PollInterval : Opt(PollStrings),
     MaxConcurrent : Opt({0, 4})]

NoKeys ==
    [Enabled |-> <<>>, TargetBranch |-> <<>>, IntegrationBranches |-> <<>>,
     OnConflict |-> <<>>, RunTests |-> <<>>, TestCommand |-> <<>>,
     DeleteMergedBranches |-> <<>>, RetryFlakyTests |-> <<>>, PollInterval |-> <<>>,
     MaxConcurrent |-> <<>>]

Keys == DOMAIN NoKeys

Present(mq) == {k \in Keys : mq[k] # <<>>}

\* The states of config.json: missing, unreadable, not JSON, JSON without a
\* merge_queue member, a merge_queue member that does not unmarshal into mqRaw,
\* or a merge_queue object.
DocKinds == {"nofile", "unreadable", "badjson", "nosection", "badsection", "section"}

Doc(kind, mq) == [kind |-> kind, mq |-> mq]

\* The configuration inputs of the loader: every kind of document, the section
\* documents with at most MaxKeys keys.
Docs ==
    {Doc(k, NoKeys) : k \in DocKinds \ {"section"}}
    \cup {Doc("section", mq) : mq \in {m \in MQRaws : Cardinality(Present(m)) <= MaxKeys}}

\* "if mqRaw.X != nil { e.config.X = *mqRaw.X }"
Override(ptr, cur) == IF ptr # <<>> THEN ptr[1] ELSE cur

\* Lines 133-159: the nine keys applied before poll_interval is looked at.
ApplyKeysWrongField(cfg, mq) ==
    [cfg EXCEPT
       !.Enabled = Override(mq.Enabled, @),
       !.TargetBranch = Override(mq.TargetBranch, @),
       !.IntegrationBranches = Override(mq.IntegrationBranches, @),
       !.OnConflict = Override(mq.TargetBranch, @),
       !.RunTests = Override(mq.RunTests, @),
       !.TestCommand = Override(mq.TestCommand, @),
       !.DeleteMergedBranches = Override(mq.DeleteMergedBranches, @),
       !.RetryFlakyTests = Override(mq.RetryFlakyTests, @),
       !.MaxConcurrent = Override(mq.MaxConcurrent, @)]

ApplyKeys(cfg, mq) ==
    [cfg EXCEPT
       !.Enabled = Override(mq.Enabled, @),
       !.TargetBranch = Override(mq.TargetBranch, @),
       !.IntegrationBranches = Override(mq.IntegrationBranches, @),
       !.OnConflict = Override(mq.OnConflict, @),
       !.RunTests = Override(mq.RunTests, @),
       !.TestCommand = Override(mq.TestCommand, @),
       !.DeleteMergedBranches = Override(mq.DeleteMergedBranches, @),
       !.RetryFlakyTests = Override(mq.RetryFlakyTests, @),
       !.MaxConcurrent = Override(mq.MaxConcurrent, @)]

\* Lines 160-166: poll_interval, parsed last.  [config, err]
ApplyPollIntervalFallback(cfg, mq) ==
    IF mq.PollInterval = <<>> THEN [config |-> cfg, err |-> "nil"]
    ELSE LET p == ParseDuration(mq.PollInterval[1])
         IN IF ~p.ok THEN [config |-> cfg, err |-> "nil"]
            ELSE [config |-> [cfg EXCEPT !.PollInterval = p.d], err |-> "nil"]

ApplyPollInterval(cfg, mq) ==
    IF mq.PollInterval = <<>> THEN [config |-> cfg, err |-> "nil"]
    ELSE LET p == ParseDuration(mq.PollInterval[1])
         IN IF ~p.ok THEN [config |-> cfg, err |-> "invalid poll_interval"]
            ELSE [config |-> [cfg EXCEPT !.PollInterval = p.d], err |-> "nil"]

LoadConfigAtomic(cfg, d) ==
    LET r == ApplyPollInterval(ApplyKeys(cfg, d.mq), d.mq)
    IN CASE d.kind \in {"nofile", "nosection"} -> [config |-> cfg, err |-> "nil"]
         [] d.kind = "unreadable" -> [config |-> cfg, err |-> "reading config"]
         [] d.kind = "badjson" -> [config |-> cfg, err |-> "parsing config"]
         [] d.kind = "badsection" -> [config |-> cfg, err |-> "parsing merge_queue config"]
         [] d.kind = "section" -> IF r.err = "nil" THEN r ELSE [config |-> cfg, err |-> r.err]

\* Engineer.LoadConfig on configuration cfg and document d: the configuration
\* it leaves and the error it returns.
LoadConfig(cfg, d) ==
    CASE d.kind = "nofile" -> [config |-> cfg, err |-> "nil"]
      [] d.kind = "unreadable" -> [config |-> cfg, err |-> "reading config"]
      [] d.kind = "badjson" -> [config |-> cfg, err |-> "parsing config"]
      [] d.kind = "nosection" -> [config |-> cfg, err |-> "nil"]
      [] d.kind = "badsection" -> [config |-> cfg, err |-> "parsing merge_queue config"]
      [] d.kind = "section" -> ApplyPollInterval(ApplyKeys(cfg, d.mq), d.mq)

\* The configuration documents the main loop is run on.
Section(k, v) == Doc("section", [NoKeys EXCEPT ![k] = <<v>>])

RunDocs ==
    {Doc("nofile", NoKeys), Doc("unreadable", NoKeys), Doc("nosection", NoKeys),
     Section("Enabled", FALSE),
     Section("OnConflict", "auto_rebase"),
     Section("OnConflict", "bogus"),
     Doc("section", [NoKeys EXCEPT !["Enabled"] = <<FALSE>>,
                                   !["PollInterval"] = <<<<"5", "m">>>>])}
    \cup {Section("PollInterval", p) : p \in PollStrings}

(***************************************************************************)
(* The tracker (package beads) and the items it stores.                    *)
(***************************************************************************)
Items == 1 .. NumItems

Statuses == {"open", "in_progress", "closed"}

\* beads.ReadyWithType: the open items, best first (the tracker sorts by
\* priority, then age; item 1 is the best, item NumItems the last).
RECURSIVE ReadyFrom(_, _)
ReadyFrom(st, i) ==
    IF i > NumItems THEN <<>>
    ELSE IF st[i] = "open" THEN <<i>> \o ReadyFrom(st, i + 1)
    ELSE ReadyFrom(st, i + 1)

ReadyWithType(st) == ReadyFrom(st, 1)

\* beads.Update with a Status option, when it succeeds
Update(st, id, s) == [st EXCEPT ![id] = s]

\* beads.CloseWithReason, when it succeeds
CloseWithReason(st, id) == [st EXCEPT ![id] = "closed"]

\* The entries of calls.
ReadyCall(ok) == [op |-> "ReadyWithType", id |-> 0, arg |-> <<>>, ok |-> ok]
UpdateCall(id, s, ok) == [op |-> "Update", id |-> id, arg |-> <<s>>, ok |-> ok]
CloseCall(id, reason, ok) == [op |-> "CloseWithReason", id |-> id, arg |-> reason, ok |-> ok]
ProcessCall(id) == [op |-> "ProcessMR", id |-> id, arg |-> <<>>, ok |-> TRUE]

Mutations == {"Update", "CloseWithReason"}
TrackerOps == Mutations \cup {"ReadyWithType"}

(***************************************************************************)
(* The pipeline.                                                           *)
(***************************************************************************)
ProcessResult(success, commit, error, conflict, testsFailed) ==
    [Success |-> success, MergeCommit |-> commit, Error |-> error,
     Conflict |-> conflict, TestsFailed |-> testsFailed]

ProcessMRSilentFailure(fields) ==
    IF ~fields
    THEN ProcessResult(FALSE, "", "no MR fields found in description", FALSE, FALSE)
    ELSE ProcessResult(FALSE, "", "", FALSE, FALSE)

\* Engineer.ProcessMR as the source has it: fields is whether
\* beads.ParseMRFields found the MR fields.
ProcessMR(fields) ==
    IF ~fields
    THEN ProcessResult(FALSE, "", "no MR fields found in description", FALSE, FALSE)
    ELSE ProcessResult(FALSE, "", "ProcessMR not fully implemented (see gt-3x1.2)",
                       FALSE, FALSE)

\* The steps of ProcessMR as the source has it: the parse (line 286) and, if
\* the fields were found, the "Would process" printing (lines 296-299).
ProcessMRStagesNoEarlyReturn(fields) == <<"parse", "would-process">>

ProcessMRStages(fields) == IF ~fields THEN <<"parse">> ELSE <<"parse", "would-process">>

\* The merge commits a merge stage can produce.
Commits == {"c0ffee", "deadbeef"}

\* What the tests give on the attempts 1..n, should they be made.
TestOutcomes(n) == [1 .. n -> BOOLEAN]

\* What a pipeline run meets: whether the fetch works, whether the dry-run
\* integration conflicts, what the test attempts give, the commit of the merge.
Envs(cfg) ==
    [fetchOK : BOOLEAN, conflict : BOOLEAN,
     tests : TestOutcomes(1 + cfg.RetryFlakyTests), commit : Commits]

\* The test stage: attempt k of at most n.  A passing attempt ends the stage;
\* a failing one is followed by the next attempt while there is one.
RECURSIVE TestAttemptsRunsAll(_, _, _)
TestAttemptsRunsAll(k, n, tests) ==
    IF k > n THEN <<>>
    ELSE <<IF tests[k] THEN "test:pass" ELSE "test:fail">> \o TestAttemptsRunsAll(k + 1, n, tests)

RECURSIVE TestAttempts(_, _, _)
TestAttempts(k, n, tests) ==
    IF k > n THEN <<>>
    ELSE IF tests[k] THEN <<"test:pass">>
    ELSE <<"test:fail">> \o TestAttempts(k + 1, n, tests)

\* One run of the designed pipeline (parse, fetch, conflict check, test,
\* merge, cleanup): its result and the stages it went through.
DesignedRun(cfg, fields, env) ==
    LET checked == <<"parse", "fetch", "conflict-check">>
        tested == IF cfg.RunTests
                  THEN TestAttempts(1, 1 + cfg.RetryFlakyTests, env.tests)
                  ELSE <<>>
        testsFailed == cfg.RunTests /\ \A i \in DOMAIN tested : tested[i] = "test:fail"
    IN IF ~fields
       THEN [result |-> ProcessResult(FALSE, "", "no MR fields found in description",
                                      FALSE, FALSE),
             stages |-> <<"parse">>]
       ELSE IF ~env.fetchOK
       THEN [result |-> ProcessResult(FALSE, "", "fetch failed", FALSE, FALSE),
             stages |-> <<"parse", "fetch">>]
       ELSE IF env.conflict
       THEN [result |-> ProcessResult(FALSE, "", "merge conflict", TRUE, FALSE),
             stages |-> checked]
       ELSE IF testsFailed
       THEN [result |-> ProcessResult(FALSE, "", "tests failed", FALSE, TRUE),
             stages |-> checked \o tested]
       ELSE [result |-> ProcessResult(TRUE, env.commit, "", FALSE, FALSE),
             stages |-> checked \o tested \o <<"merge">>
                        \o (IF cfg.DeleteMergedBranches THEN <<"cleanup">> ELSE <<>>)]

\* The runs of the designed pipeline.
DesignedResults(cfg, fields) == {DesignedRun(cfg, fields, env) : env \in Envs(cfg)}

PipelineResults(p, cfg, fields) ==
    IF p = "placeholder"
    THEN {[result |-> ProcessMR(fields), stages |-> ProcessMRStages(fields)]}
    ELSE DesignedResults(cfg, fields)

(***************************************************************************)
(* Engineer.Run, up to its first processOnce call.                         *)
(***************************************************************************)
\* Lines 179-190: what Run does with LoadConfig's answer.  "error": it returns
\* an error; "panic": time.NewTicker panics on an interval that is not
\* positive; "run": it goes on to its first cycle.
RunGateIgnoresEnabled(err, cfg) ==
    IF err # "nil" THEN "error"
    ELSE IF cfg.PollInterval <= 0 THEN "panic"
    ELSE "run"

RunGate(err, cfg) ==
    IF err # "nil" THEN "error"
    ELSE IF ~cfg.Enabled THEN "error"
    ELSE IF cfg.PollInterval <= 0 THEN "panic"
    ELSE "run"

\* Lines 194-196 and 207-209: where Run goes when processOnce has returned err.
\* The error is printed; the loop goes (back) to its select.
AfterCycleReturnsError(err) == IF err = "nil" THEN "wait" ELSE "returned"

AfterCycle(err) == "wait"

\* The entry of a processOnce call: its locals are fresh.
EnterCycle(kind) ==
    /\ pc' = "check"
    /\ cycleKind' = kind
    /\ sigAtTick' = [ctx |-> ctxDone /\ kind = "tick", stop |-> stopClosed /\ kind = "tick"]
    /\ readyMRs' = <<>>
    /\ queryErr' = FALSE
    /\ mr' = <<>>
    /\ result' = <<>>
    /\ stages' = <<>>
    /\ cycleErr' = "running"
    /\ calls' = <<>>
    /\ everCycle' = TRUE
    /\ status0' = status
    /\ UNCHANGED everCall

Run ==
    /\ pc = "idle"
    /\ LET r == LoadConfig(config, doc)
           g == RunGate(r.err, r.config)
       IN /\ config' = r.config
          /\ loadErr' = r.err
          /\ IF g = "run"
             THEN /\ EnterCycle("first")
                  /\ UNCHANGED runResult
             ELSE /\ pc' = IF g = "panic" THEN "panicked" ELSE "returned"
                  /\ runResult' = g
                  /\ UNCHANGED cycleVars
    /\ UNCHANGED <<escVars, driving, doc, ctxDone, stopClosed, stopPanic, tickC, tickTaken, trackerVars>>

\* A direct call of the exported LoadConfig.
LoadConfigCall ==
    /\ pc = "idle"
    /\ LET r == LoadConfig(config, doc)
       IN /\ config' = r.config
          /\ loadErr' = r.err
    /\ UNCHANGED <<escVars, driving, doc, loopVars, trackerVars, cycleVars>>

(***************************************************************************)
(* Engineer.processOnce, one step for each call that can interleave with   *)
(* a cancellation, a Stop call and the ticker.                             *)
(***************************************************************************)
\* Lines 225-229: where processOnce goes from its context check: it returns
\* nil if ctx is done and goes on to the ready query otherwise.
AfterCtxCheckIgnoresCtx(done) == "query"

AfterCtxCheck(done) == IF done THEN AfterCycle("nil") ELSE "query"

\* Lines 225-229: the context check.
processOnce_CheckCtx ==
    /\ pc = "check"
    /\ pc' = AfterCtxCheck(ctxDone)
    /\ cycleErr' = IF pc' = "query" THEN cycleErr ELSE "nil"
    /\ UNCHANGED <<readyMRs, queryErr, mr, result, stages, calls, cycleKind, sigAtTick,
                   everCycle, everCall, status0>>
    /\ UNCHANGED <<escVars, driving, cfgVars, runResult, ctxDone, stopClosed, stopPanic, tickC, tickTaken,
                   trackerVars>>

\* Line 244: mr := readyMRs[0]
SelectLast(ready) == ready[Len(ready)]

Select(ready) == ready[1]

\* Lines 238-240: what processOnce returns on an empty ready list.
EmptyQueueIsError == "no ready merge-requests"

EmptyQueueResult == "nil"

\* Lines 232-246: the ready query and the selection.
processOnce_Query ==
    /\ pc = "query"
    /\ \E ok \in BOOLEAN :
         /\ calls' = Append(calls, ReadyCall(ok))
         /\ queryErr' = ~ok
         /\ IF ~ok
            THEN /\ cycleErr' = "querying ready merge-requests"
                 /\ pc' = AfterCycle(cycleErr')
                 /\ UNCHANGED <<readyMRs, mr>>
            ELSE /\ readyMRs' = ReadyWithType(status)
                 /\ IF readyMRs' = <<>>
                    THEN /\ cycleErr' = EmptyQueueResult
                         /\ pc' = AfterCycle(cycleErr')
                         /\ UNCHANGED mr
                    ELSE /\ mr' = <<Select(readyMRs')>>
                         /\ pc' = "claim"
                         /\ UNCHANGED cycleErr
    /\ everCall' = TRUE
    /\ UNCHANGED <<result, stages, cycleKind, sigAtTick, everCycle, status0>>
    /\ UNCHANGED <<escVars, driving, cfgVars, runResult, ctxDone, stopClosed, stopPanic, tickC, tickTaken,
                   trackerVars>>

\* Lines 250-252: where processOnce goes after the claim update answered.
AfterClaimIgnoresError(ok) == "process"

AfterClaimChecksCtx(ok) ==
    IF ok /\ ~ctxDone /\ ~stopClosed THEN "process" ELSE AfterCycle("claiming MR")

AfterClaim(ok) == IF ok THEN "process" ELSE AfterCycle("claiming MR")

\* Lines 249-252: the claim.
processOnce_Claim ==
    /\ pc = "claim"
    /\ \E ok \in BOOLEAN :
         /\ calls' = Append(calls, UpdateCall(mr[1], "in_progress", ok))
         /\ status' = IF ok THEN Update(status, mr[1], "in_progress") ELSE status
         /\ pc' = AfterClaim(ok)
         /\ cycleErr' = IF ok THEN cycleErr ELSE "claiming MR"
         /\ driving' = IF ok THEN driving \cup {mr[1]} ELSE driving
    /\ everCall' = TRUE
    /\ UNCHANGED <<readyMRs, queryErr, mr, result, stages, cycleKind, sigAtTick, everCycle,
                   status0>>
    /\ UNCHANGED <<escVars, cfgVars, runResult, ctxDone, stopClosed, stopPanic, tickC, tickTaken,
                   hasFields, pipeline>>

\* Line 255: result := e.ProcessMR(ctx, mr)
processOnce_Process ==
    /\ pc = "process"
    /\ \E r \in PipelineResults(pipeline, config, hasFields[mr[1]]) :
         /\ result' = <<r.result>>
         /\ stages' = r.stages
    /\ calls' = Append(calls, ProcessCall(mr[1]))
    /\ pc' = "handle"
    /\ UNCHANGED <<readyMRs, queryErr, mr, cycleErr, cycleKind, sigAtTick, everCycle,
                   everCall, status0>>
    /\ UNCHANGED <<escVars, driving, cfgVars, runResult, ctxDone, stopClosed, stopPanic, tickC, tickTaken,
                   trackerVars>>

\* Line 260: reason := fmt.Sprintf("merged: %s", result.MergeCommit)
MergedReason(res) == <<"merged: ", res.MergeCommit>>

handleFailureSkipsReopen(st, id, res, ok) ==
    [status |-> st, calls |-> <<UpdateCall(id, "open", ok)>>]

handleFailureRejectsUnknown(st, id, res, ok) ==
    IF config.OnConflict \in {"assign_back", "auto_rebase"}
    THEN [status |-> IF ok THEN Update(st, id, "open") ELSE st,
          calls |-> <<UpdateCall(id, "open", ok)>>]
    ELSE [status |-> st, calls |-> <<>>]

handleFailureCloses(st, id, res, ok) ==
    [status |-> IF ok THEN CloseWithReason(st, id) ELSE st,
     calls |-> <<CloseCall(id, <<"failed: ", res.Error>>, ok)>>]

\* Engineer.handleFailure: the reopen update (ok is the tracker's answer); the
\* configured on_conflict strategy is not read.  [status, calls]
handleFailure(st, id, res, ok) ==
    [status |-> IF ok THEN Update(st, id, "open") ELSE st,
     calls |-> <<UpdateCall(id, "open", ok)>>]

\* Lines 258-268: the close on success, handleFailure otherwise.  [status, calls]
ReconcileReopensOnCloseError(st, id, res, ok) ==
    IF res.Success
    THEN IF ok
         THEN [status |-> CloseWithReason(st, id),
               calls |-> <<CloseCall(id, MergedReason(res), ok)>>]
         ELSE [status |-> Update(st, id, "open"),
               calls |-> <<CloseCall(id, MergedReason(res), ok), UpdateCall(id, "open", TRUE)>>]
    ELSE handleFailure(st, id, res, ok)

Reconcile(st, id, res, ok) ==
    IF res.Success
    THEN [status |-> IF ok THEN CloseWithReason(st, id) ELSE st,
          calls |-> <<CloseCall(id, MergedReason(res), ok)>>]
    ELSE handleFailure(st, id, res, ok)

processOnce_HandleResult ==
    /\ pc = "handle"
    /\ \E ok \in BOOLEAN :
         LET h == Reconcile(status, mr[1], result[1], ok)
         IN /\ status' = h.status
            /\ calls' = calls \o h.calls
    /\ driving' = driving \ {mr[1]}
    /\ cycleErr' = "nil"
    /\ pc' = AfterCycle("nil")
    /\ everCall' = TRUE
    /\ UNCHANGED <<readyMRs, queryErr, mr, result, stages, cycleKind, sigAtTick, everCycle,
                   status0>>
    /\ UNCHANGED <<escVars, cfgVars, runResult, ctxDone, stopClosed, stopPanic, tickC, tickTaken,
                   hasFields, pipeline>>

(***************************************************************************)
(* The select of Run's loop (lines 198-211), the ticker, the context and   *)
(* Stop.  A select with several ready cases takes any one of them.         *)
(***************************************************************************)
\* Run is at its select only between two processOnce calls.
AtSelectWhileDriving == pc \in {"wait", "process", "handle"}

AtSelect == pc = "wait"

Run_SelectCtxDone ==
    /\ AtSelect
    /\ ctxDone
    /\ pc' = "returned"
    /\ runResult' = "nil"
    /\ UNCHANGED <<escVars, driving, cfgVars, ctxDone, stopClosed, stopPanic, tickC, tickTaken, trackerVars,
                   cycleVars>>

Run_SelectStop ==
    /\ AtSelect
    /\ stopClosed
    /\ pc' = "returned"
    /\ runResult' = "nil"
    /\ UNCHANGED <<escVars, driving, cfgVars, ctxDone, stopClosed, stopPanic, tickC, tickTaken, trackerVars,
                   cycleVars>>

Run_SelectTick ==
    /\ AtSelect
    /\ tickPending
    /\ tickTaken' = Head(tickC)
    /\ tickC' = [i \in 1..(Len(tickC) - 1) |-> "stale"]
    /\ EnterCycle("tick")
    /\ UNCHANGED <<escVars, driving, cfgVars, runResult, ctxDone, stopClosed, stopPanic, trackerVars>>

\* The ticker lives from line 190 to Run's return (the deferred ticker.Stop).
TickerRunning == pc \in {"check", "query", "claim", "process", "handle", "wait"}

\* time.NewTicker (line 190) gives ticker.C the capacity 1.
TickerCap == 1

\* The ticker sends without blocking: a tick is kept while ticker.C has room
\* and dropped otherwise.
TickKeptQueued(c) == Len(c) <= TickerCap

TickKept(c) == Len(c) < TickerCap

\* The ticker fires.  A tick that is kept is marked with when it fired: while
\* a processOnce call was running ("cycle") or while Run was at its select
\* ("wait"); the ticks still held when a later cycle begins are "stale".
Tick ==
    /\ TickerRunning
    /\ TickKept(tickC)
    /\ tickC' = Append(tickC, IF AtSelect THEN "wait" ELSE "cycle")
    /\ UNCHANGED <<escVars, driving, cfgVars, tickTaken, pc, runResult, ctxDone, stopClosed, stopPanic, trackerVars,
                   cycleVars>>

\* The caller cancels ctx.
Cancel ==
    /\ ~ctxDone
    /\ ctxDone' = TRUE
    /\ UNCHANGED <<escVars, driving, cfgVars, pc, runResult, stopClosed, stopPanic, tickC, tickTaken, trackerVars,
                   cycleVars>>

\* Engineer.Stop: close(e.stopCh); closing the closed channel panics in the
\* goroutine that called Stop.
Stop ==
    /\ ~stopPanic
    /\ IF stopClosed
       THEN /\ stopPanic' = TRUE
            /\ UNCHANGED stopClosed
       ELSE /\ stopClosed' = TRUE
            /\ UNCHANGED stopPanic
    /\ UNCHANGED <<escVars, driving, cfgVars, pc, runResult, ctxDone, tickC, tickTaken, trackerVars, cycleVars>>

(***************************************************************************)
(* The escalation helpers of package cmd, which the source holds the tests *)
(* of: getNextSeverity, extractMailTargetsFromActions and                  *)
(* formatEscalationMailBody.                                               *)
(***************************************************************************)
\* The severities getNextSeverity is given.
SeverityInputs == {"low", "medium", "high", "critical", "", "unknown", "invalid", "LOW"}

getNextSeverityKeepsUnknown(severity) ==
    CASE severity = "low" -> "medium"
      [] severity = "medium" -> "high"
      [] severity = "high" -> "critical"
      [] severity = "critical" -> "critical"
      [] OTHER -> severity

\* getNextSeverity: one step up the ladder, critical for everything else.
getNextSeverity(severity) ==
    CASE severity = "low" -> "medium"
      [] severity = "medium" -> "high"
      [] severity = "high" -> "critical"
      [] OTHER -> "critical"

\* The action strings of the tests, as tuples of characters.
MailPrefix == <<"m", "a", "i", "l", ":">>

ActionStrings ==
    {<<"m", "a", "i", "l", ":", "x">>,                       \* "mail:x"
     <<"m", "a", "i", "l", ":", "t", "/", "y">>,             \* "mail:t/y"
     <<"m", "a", "i", "l", ":", "a", ":", "b">>,             \* "mail:a:b"
     <<"m", "a", "i", "l", ":", " ">>,                       \* "mail: "
     <<"m", "a", "i", "l", ":">>,                            \* "mail:"
     <<"m", "a", "i", "l">>,                                 \* "mail"
     <<"M", "a", "i", "l", ":", "x">>,                       \* "Mail:x"
     <<"m", "a", "i", "l", "t", "o", ":", "x">>,             \* "mailto:x"
     <<"e", "m", "a", "i", "l", ":", "h">>,                  \* "email:h"
     <<"b", "e", "a", "d">>,                                 \* "bead"
     <<>>}                                                   \* ""

\* The lists of at most n action strings.
RECURSIVE ActionLists(_)
ActionLists(n) ==
    IF n = 0 THEN {<<>>}
    ELSE LET shorter == ActionLists(n - 1)
         IN shorter \cup {Append(l, a) : l \in {x \in shorter : Len(x) = n - 1},
                                         a \in ActionStrings}

\* strings.HasPrefix and strings.TrimPrefix
HasPrefix(str, prefix) ==
    Len(str) >= Len(prefix) /\ SubSeq(str, 1, Len(prefix)) = prefix

TrimPrefix(str, prefix) ==
    IF HasPrefix(str, prefix) THEN SubSeq(str, Len(prefix) + 1, Len(str)) ELSE str

RECURSIVE extractKeepsEmptyTargets(_)
extractKeepsEmptyTargets(as) ==
    IF as = <<>> THEN <<>>
    ELSE IF HasPrefix(Head(as), MailPrefix)
         THEN <<TrimPrefix(Head(as), MailPrefix)>> \o extractKeepsEmptyTargets(Tail(as))
         ELSE extractKeepsEmptyTargets(Tail(as))

\* extractMailTargetsFromActions: the non-empty remainders of the strings that
\* start with "mail:", in order.
RECURSIVE extractMailTargetsFromActions(_)
extractMailTargetsFromActions(as) ==
    IF as = <<>> THEN <<>>
    ELSE LET target == TrimPrefix(Head(as), MailPrefix)
         IN IF HasPrefix(Head(as), MailPrefix) /\ target # <<>>
            THEN <<target>> \o extractMailTargetsFromActions(Tail(as))
            ELSE extractMailTargetsFromActions(Tail(as))

\* The arguments formatEscalationMailBody is given.  A text is one token; a
\* line of the body is the tuple of the tokens it is made of.
MailArgs ==
    [beadID : {"gt-abc123", "gt-min1"},
     severity : {"critical", "low"},
     reason : {"", "CI blocked on dependency"},
     from : {"gastown/polecats/furiosa", "unknown"},
     related : {"", "gt-xyz789"}]

formatBodyReasonGuardsRelated(a) ==
    <<<<"Escalation ID: ", a.beadID>>, <<"Severity: ", a.severity>>, <<"From: ", a.from>>>>
    \o (IF a.reason # ""
        THEN <<<<>>, <<"Reason:">>, <<a.reason>>>>
             \o (IF a.related # "" THEN <<<<>>, <<"Related: ", a.related>>>> ELSE <<>>)
        ELSE <<>>)
    \o <<<<>>, <<"---">>, <<"To acknowledge: gt escalate ack ", a.beadID>>,
         <<"To close: gt escalate close ", a.beadID>>>>

\* formatEscalationMailBody: the lines of the fixed template.
formatEscalationMailBody(a) ==
    <<<<"Escalation ID: ", a.beadID>>, <<"Severity: ", a.severity>>, <<"From: ", a.from>>>>
    \o (IF a.reason # "" THEN <<<<>>, <<"Reason:">>, <<a.reason>>>> ELSE <<>>)
    \o (IF a.related # "" THEN <<<<>>, <<"Related: ", a.related>>>> ELSE <<>>)
    \o <<<<>>, <<"---">>, <<"To acknowledge: gt escalate ack ", a.beadID>>,
         <<"To close: gt escalate close ", a.beadID>>>>

engineVars == <<cfgVars, loopVars, trackerVars, cycleVars, driving>>

\* An escalation is raised one step.
Escalate ==
    /\ sevSteps < MaxEscalations
    /\ sev' = getNextSeverity(sev)
    /\ sevPrev' = sev
    /\ sevSteps' = sevSteps + 1
    /\ UNCHANGED <<actions, targets, mailArgs, mailBody, engineVars>>

\* The mail targets of the route are extracted.
ExtractTargets ==
    /\ targets = <<>>
    /\ targets' = <<extractMailTargetsFromActions(actions)>>
    /\ UNCHANGED <<sev, sevPrev, sevSteps, actions, mailArgs, mailBody, engineVars>>

\* The mail body is formatted.
FormatBody ==
    /\ mailBody = <<>>
    /\ mailBody' = <<formatEscalationMailBody(mailArgs)>>
    /\ UNCHANGED <<sev, sevPrev, sevSteps, actions, targets, mailArgs, engineVars>>

\* No escalation is at hand.
DefaultMailArgs ==
    [beadID |-> "gt-min1", severity |-> "low", reason |-> "", from |-> "unknown",
     related |-> ""]

EscalationIdle ==
    /\ sev = "low"
    /\ sevPrev = "low"
    /\ sevSteps = 0
    /\ actions = <<>>
    /\ targets = <<>>
    /\ mailArgs = DefaultMailArgs
    /\ mailBody = <<>>

(***************************************************************************)
(* Specifications.                                                         *)
(***************************************************************************)
\* NewEngineer, and everything the engine's surroundings decide.
\* No Run call has been made, no channel is closed, no cycle has begun.
InitIdle ==
    /\ loadErr = "unset"
    /\ pc = "idle"
    /\ runResult = "none"
    /\ ctxDone = FALSE
    /\ stopClosed = FALSE
    /\ stopPanic = FALSE
    /\ tickC = <<>>
    /\ tickTaken = "none"
    /\ readyMRs = <<>>
    /\ queryErr = FALSE
    /\ mr = <<>>
    /\ result = <<>>
    /\ stages = <<>>
    /\ cycleErr = "none"
    /\ calls = <<>>
    /\ cycleKind = "none"
    /\ sigAtTick = [ctx |-> FALSE, stop |-> FALSE]
    /\ everCycle = FALSE
    /\ everCall = FALSE
    /\ driving = {}

InitEngine ==
    /\ config = DefaultMergeQueueConfig
    /\ InitIdle

Init ==
    /\ InitEngine
    /\ EscalationIdle
    /\ doc \in RunDocs
    /\ status \in [Items -> {"open", "closed"}]
    /\ status0 = status
    /\ hasFields \in [Items -> BOOLEAN]
    /\ pipeline \in {"placeholder", "designed"}

Next ==
    \/ Run
    \/ processOnce_CheckCtx
    \/ processOnce_Query
    \/ processOnce_Claim
    \/ processOnce_Process
    \/ processOnce_HandleResult
    \/ Run_SelectCtxDone
    \/ Run_SelectStop
    \/ Run_SelectTick
    \/ Tick
    \/ Cancel
    \/ Stop

Spec == Init /\ [][Next]_vars

\* The loader alone, on every configuration input.
InitConfig ==
    /\ InitEngine
    /\ EscalationIdle
    /\ doc \in Docs
    /\ status = [i \in Items |-> "open"]
    /\ status0 = status
    /\ hasFields = [i \in Items |-> TRUE]
    /\ pipeline = "placeholder"

NextConfig == LoadConfigCall

SpecConfig == InitConfig /\ [][NextConfig]_vars

\* The escalation helpers alone, on their inputs; the engine is not run.
InitEscalation ==
    /\ InitEngine
    /\ doc = Doc("nofile", NoKeys)
    /\ status = [i \in Items |-> "open"]
    /\ status0 = status
    /\ hasFields = [i \in Items |-> TRUE]
    /\ pipeline = "placeholder"
    /\ sev \in SeverityInputs
    /\ sevPrev = sev
    /\ sevSteps = 0
    /\ actions \in ActionLists(MaxActions)
    /\ targets = <<>>
    /\ mailArgs \in MailArgs
    /\ mailBody = <<>>
    /\ \/ actions = <<>> /\ mailArgs = DefaultMailArgs
       \/ sev = "low" /\ mailArgs = DefaultMailArgs
       \/ sev = "low" /\ actions = <<>>

NextEscalation ==
    \/ Escalate
    \/ ExtractTargets
    \/ FormatBody

SpecEscalation == InitEscalation /\ [][NextEscalation]_vars

\* LoadConfig called again: the configuration an earlier load of another
\* document left, and the document as it is now.
LoadedConfigs ==
    {DefaultMergeQueueConfig,
     [DefaultMergeQueueConfig EXCEPT !.TargetBranch = "develop", !.RunTests = FALSE,
                                     !.PollInterval = 90 * Second]}

InitReload ==
    /\ config \in LoadedConfigs
    /\ InitIdle
    /\ EscalationIdle
    /\ doc \in Docs
    /\ status = [i \in Items |-> "open"]
    /\ status0 = status
    /\ hasFields = [i \in Items |-> TRUE]
    /\ pipeline = "placeholder"

NextReload == LoadConfigCall

SpecReload == InitReload /\ [][NextReload]_vars

\* ProcessMR alone: the configurations its test and cleanup stages read, and
\* a direct call for one item.
PipelineConfigs ==
    {[DefaultMergeQueueConfig EXCEPT !.RunTests = t, !.RetryFlakyTests = r,
                                     !.DeleteMergedBranches = d] :
       t \in BOOLEAN, r \in 0 .. MaxRetry, d \in BOOLEAN}

ProcessMRCall ==
    /\ pc = "idle"
    /\ result = <<>>
    /\ \E i \in Items :
         /\ mr' = <<i>>
         /\ \E r \in PipelineResults(pipeline, config, hasFields[i]) :
              /\ result' = <<r.result>>
              /\ stages' = r.stages
    /\ UNCHANGED <<readyMRs, queryErr, cycleErr, calls, cycleKind, sigAtTick, everCycle,
                   everCall, status0>>
    /\ UNCHANGED <<escVars, driving, cfgVars, loopVars, trackerVars>>

InitPipeline ==
    /\ config \in PipelineConfigs
    /\ InitIdle
    /\ EscalationIdle
    /\ doc = Doc("nofile", NoKeys)
    /\ status = [i \in Items |-> "in_progress"]
    /\ status0 = status
    /\ hasFields \in [Items -> BOOLEAN]
    /\ pipeline \in {"placeholder", "designed"}

NextPipeline == ProcessMRCall

SpecPipeline == InitPipeline /\ [][NextPipeline]_vars

(***************************************************************************)
(* Claims.                                                                 *)
(***************************************************************************)
\* A processOnce call has returned and no other has begun since.
CycleOver == cycleKind # "none" /\ pc \in {"wait", "returned"}

\* The places in calls where a status update to s was issued.
UpdatesTo(s) == {i \in DOMAIN calls : calls[i].op = "Update" /\ calls[i].arg = <<s>>}

\* C1: in a cycle whose ready query returned a non-empty list, the claim (one
\* status update to in_progress) is issued for the item at index 0 of the list
\* right after the query, no tracker mutation of the cycle names another item,
\* there is never a second claim, and ProcessMR starts only after the claim.
C1_ClaimsExactlyTheHead ==
    readyMRs # <<>> =>
        /\ \A i \in DOMAIN calls : calls[i].op \in Mutations => calls[i].id = readyMRs[1]
        /\ Cardinality(UpdatesTo("in_progress")) <= 1
        /\ pc # "claim" => /\ UpdatesTo("in_progress") = {2}
                           /\ calls[2].id = readyMRs[1]
        /\ \A i \in DOMAIN calls :
             calls[i].op = "ProcessMR" => \E j \in UpdatesTo("in_progress") : j < i

\* C1's case: a cycle over a ready list of two items ran through its claim,
\* the pipeline and the reconcile call.
C1_Witness ==
    /\ CycleOver
    /\ Len(readyMRs) = 2
    /\ Len(calls) = 4
    /\ calls[3].op = "ProcessMR"

\* C2: a cycle whose ready query returned an empty list issued no tracker
\* mutation (the query is its only call, the store is as it was when the cycle
\* began), did not call ProcessMR, and returned no error.
C2_EmptyQueueCycle ==
    (CycleOver /\ calls # <<>> /\ ~queryErr /\ readyMRs = <<>>) =>
        /\ calls = <<ReadyCall(TRUE)>>
        /\ status = status0
        /\ mr = <<>>
        /\ result = <<>>
        /\ cycleErr = "nil"

\* C2's case: a cycle on a tick found the ready list empty while an item of
\* the store was not open.
C2_Witness ==
    /\ CycleOver
    /\ cycleKind = "tick"
    /\ calls = <<ReadyCall(TRUE)>>
    /\ readyMRs = <<>>
    /\ \E i \in Items : status[i] # "open"

\* C3: under the assign_back strategy, a cycle that has ended with a failed
\* pipeline result has left the item it claimed open, never in_progress, also
\* when the reopen update returned an error.
C3_FailedItemIsOpen ==
    (CycleOver /\ result # <<>> /\ ~result[1].Success
       /\ config.OnConflict = "assign_back") =>
        status[mr[1]] = "open"

\* C4: when the claim update returned an error, processOnce returned the claim
\* error at once: ProcessMR was not called, the claim is the last tracker call
\* of the cycle (no reopen, no close), and the store is as it was when the
\* cycle began.
C4_ClaimErrorAborts ==
    (Len(calls) >= 2 /\ calls[2].op = "Update" /\ ~calls[2].ok) =>
        /\ CycleOver
        /\ cycleErr = "claiming MR"
        /\ Len(calls) = 2
        /\ result = <<>>
        /\ status = status0
        /\ status[mr[1]] = "open"

\* C4's case: the claim of the head of a two-item ready list was refused.
C4_Witness ==
    /\ CycleOver
    /\ Len(readyMRs) = 2
    /\ Len(calls) = 2
    /\ calls[2] = UpdateCall(readyMRs[1], "in_progress", FALSE)

\* The places in calls where a close was issued.
Closes == {i \in DOMAIN calls : calls[i].op = "CloseWithReason"}

\* C5: a cycle that has ended with a successful pipeline result issued exactly
\* one close, for the claimed item, with the reason "merged: " followed by the
\* result's merge commit, and no reopen update; the close moved the item from
\* in_progress to closed, or failed and left it in_progress; either way
\* processOnce returned no error.
C5_SuccessCloses ==
    (CycleOver /\ result # <<>> /\ result[1].Success) =>
        /\ Closes = {4}
        /\ Len(calls) = 4
        /\ calls[4].id = mr[1]
        /\ calls[4].arg = <<"merged: ", result[1].MergeCommit>>
        /\ result[1].MergeCommit \in Commits
        /\ UpdatesTo("open") = {}
        /\ status0[mr[1]] = "open"
        /\ status[mr[1]] = IF calls[4].ok THEN "closed" ELSE "in_progress"
        /\ cycleErr = "nil"

\* C5's case: the close that followed a successful pipeline run was refused.
C5_Witness ==
    /\ CycleOver
    /\ result # <<>>
    /\ result[1].Success
    /\ Len(calls) = 4
    /\ ~calls[4].ok

\* C6: once Run has been called on a configuration that loads with
\* enabled = false, Run has returned an error: no cycle began, no tracker call
\* was issued, and the loop's ticker never ran.
C6_DisabledIsStartupError ==
    (pc # "idle" /\ ~config.Enabled) =>
        /\ pc = "returned"
        /\ runResult = "error"
        /\ ~everCycle
        /\ ~everCall
        /\ calls = <<>>
        /\ ~tickPending
        /\ status = status0

\* C6's case: the configuration loaded without error, with enabled = false,
\* and Run has ended.
C6_Witness ==
    /\ pc = "returned"
    /\ loadErr = "nil"
    /\ ~config.Enabled
    /\ \E i \in Items : status[i] = "open"

\* The durations of the well-formed poll_interval strings, in milliseconds
\* (the strings of PollStrings that are not listed are malformed).
C7_Expected ==
    {<< <<"3", "0", "s">>, 30000 >>, << <<"5", "m">>, 300000 >>,
     << <<"1", "m", "3", "0", "s">>, 90000 >>, << <<"2", "5", "0", "m", "s">>, 250 >>,
     << <<"0">>, 0 >>, << <<"0", "s">>, 0 >>, << <<"-", "5", "s">>, 0 - 5000 >>}

\* C7: after Run's LoadConfig, a well-formed poll_interval string of the
\* section is the configured polling interval; a malformed one made LoadConfig
\* fail, and Run has returned an error with no cycle begun and no tracker call
\* issued (it did not go on with the default interval).
C7_PollInterval ==
    (pc # "idle" /\ doc.kind = "section" /\ doc.mq.PollInterval # <<>>) =>
        LET str == doc.mq.PollInterval[1]
        IN IF \E e \in C7_Expected : e[1] = str
           THEN /\ loadErr = "nil"
                /\ \E e \in C7_Expected : e[1] = str /\ config.PollInterval = e[2]
           ELSE /\ loadErr = "invalid poll_interval"
                /\ pc = "returned"
                /\ runResult = "error"
                /\ ~everCycle
                /\ ~everCall
                /\ ~tickPending

\* C7's case: Run was called on the section {"poll_interval": "notaduration"}.
C7_Witness ==
    /\ pc = "returned"
    /\ doc.kind = "section"
    /\ doc.mq.PollInterval
         = << <<"n", "o", "t", "a", "d", "u", "r", "a", "t", "i", "o", "n">> >>
    /\ \E i \in Items : status[i] = "open"

\* The defaults of a freshly constructed Engineer.
C8_Defaults ==
    [Enabled |-> TRUE, TargetBranch |-> "main", IntegrationBranches |-> TRUE,
     OnConflict |-> "assign_back", RunTests |-> TRUE, TestCommand |-> "",
     DeleteMergedBranches |-> TRUE, RetryFlakyTests |-> 1, PollInterval |-> 30000,
     MaxConcurrent |-> 1]

\* C8: a LoadConfig call on a fresh Engineer that found no config file or no
\* merge_queue section left every field at its default; one that loaded a
\* merge_queue section left each of the ten fields at the supplied value if
\* its key is in the section and at its default if it is not.
C8_SparseOverride ==
    loadErr # "unset" =>
        /\ doc.kind \in {"nofile", "nosection"} =>
               loadErr = "nil" /\ config = C8_Defaults
        /\ (doc.kind = "section" /\ loadErr = "nil") =>
               /\ \A k \in Keys \ {"PollInterval"} :
                    config[k] = IF doc.mq[k] # <<>> THEN doc.mq[k][1] ELSE C8_Defaults[k]
               /\ IF doc.mq.PollInterval = <<>>
                  THEN config.PollInterval = C8_Defaults.PollInterval
                  ELSE \E e \in C7_Expected :
                          e[1] = doc.mq.PollInterval[1] /\ config.PollInterval = e[2]

\* C8's case: a section of three keys, target_branch = "release" among them,
\* was loaded.
C8_Witness ==
    /\ loadErr = "nil"
    /\ doc.kind = "section"
    /\ Cardinality(Present(doc.mq)) = 3
    /\ doc.mq.TargetBranch = <<"release">>
    /\ config.TargetBranch = "release"
    /\ config.OnConflict = "assign_back"

\* C9: after a cancellation or a Stop call, a Run call on a configuration that
\* loaded without error and is enabled ends in no other way than by returning
\* nil.
C9_RunEndsByReturningNil ==
    (pc \notin {"idle", "check", "query", "claim", "process", "handle", "wait"}
       /\ loadErr = "nil" /\ config.Enabled /\ (ctxDone \/ stopClosed)) =>
        runResult = "nil"

\* C10: a cycle that the loop began on a tick while the context was cancelled
\* or the stop channel closed issues no tracker call.
C10_NoCallAfterShutdownSignal ==
    (cycleKind = "tick" /\ (sigAtTick.ctx \/ sigAtTick.stop)) =>
        \A i \in DOMAIN calls : calls[i].op \notin TrackerOps

\* C11: a Stop call never faults, however many came before it.
C11_StopNeverFaults == ~stopPanic

\* The cycle met an error of the tracker or of the pipeline.
CycleHitError ==
    \/ cycleErr \notin {"nil", "running"}
    \/ \E i \in DOMAIN calls : ~calls[i].ok
    \/ result # <<>> /\ ~result[1].Success

\* C12: Run returns an error only before its first cycle and its first
\* tracker call, on a configuration that failed to load or is disabled; once
\* a cycle has begun Run ends only by returning nil on a cancellation or a
\* stop signal; after a cycle that met a tracker or pipeline error Run is in
\* its wait loop (or has shut down so), and a pending tick starts the next
\* cycle.
C12_OnlyStartupErrorsEscape ==
    /\ runResult = "error" =>
         /\ ~everCycle
         /\ ~everCall
         /\ loadErr \notin {"nil", "unset"} \/ ~config.Enabled
    /\ (pc = "returned" /\ everCycle) =>
         runResult = "nil" /\ (ctxDone \/ stopClosed)
    /\ (cycleKind # "none" /\ CycleHitError /\ pc \notin {"query", "claim", "process", "handle"}) =>
         /\ pc \in {"wait", "returned"}
         /\ (pc = "wait" /\ tickPending) => ENABLED Run_SelectTick

\* C12's case: a cycle on a tick is at its ready query while an item is
\* stranded in in_progress, which only a refused reopen or close of an
\* earlier cycle leaves behind.
C12_Witness ==
    /\ cycleKind = "tick"
    /\ pc = "query"
    /\ \E i \in Items : status[i] = "in_progress"

\* The place of a severity on the ladder (0: not on it).
C13_Rank(severity) ==
    CASE severity = "low" -> 1 [] severity = "medium" -> 2 [] severity = "high" -> 3
      [] severity = "critical" -> 4 [] OTHER -> 0

\* C13: a getNextSeverity step takes low to medium, medium to high, high to
\* critical, critical to critical and every other input, the empty string
\* included, to critical; so a step never goes down the ladder, and from any
\* input the severity is critical after three steps and stays so.
C13_SeverityLadder ==
    sevSteps > 0 =>
        /\ <<sevPrev, sev>> \in
             {<<"low", "medium">>, <<"medium", "high">>, <<"high", "critical">>,
              <<"critical", "critical">>}
             \cup {<<x, "critical">> : x \in {"", "unknown", "invalid", "LOW"}}
        /\ C13_Rank(sev) >= C13_Rank(sevPrev)
        /\ C13_Rank(sev) > 0
        /\ sevSteps >= 3 => sev = "critical"

\* C13's case: the third step of the chain that began at low.
C13_Witness ==
    /\ sevSteps = 3
    /\ sevPrev = "high"
    /\ sev = "critical"

\* What one action string adds to the mail targets.
C14_Target(a) ==
    CASE a = <<"m", "a", "i", "l", ":", "x">> -> <<<<"x">>>>
      [] a = <<"m", "a", "i", "l", ":", "t", "/", "y">> -> <<<<"t", "/", "y">>>>
      [] a = <<"m", "a", "i", "l", ":", "a", ":", "b">> -> <<<<"a", ":", "b">>>>
      [] a = <<"m", "a", "i", "l", ":", " ">> -> <<<<" ">>>>
      [] OTHER -> <<>>

RECURSIVE C14_Targets(_)
C14_Targets(as) == IF as = <<>> THEN <<>> ELSE C14_Target(Head(as)) \o C14_Targets(Tail(as))

\* C14: extractMailTargetsFromActions returns the remainders of the strings
\* that start with "mail:" and go on after it, in their order and unchanged
\* (later colons kept); "Mail:x", "mail", "mailto:x", "email:h", "mail:" and
\* the other strings add nothing, and the empty list gives the empty result.
C14_MailTargets ==
    targets # <<>> =>
        /\ targets[1] = C14_Targets(actions)
        /\ actions = <<>> => targets[1] = <<>>

\* C14's case: a list of "mail:" and "mail:a:b" gave the one target "a:b".
C14_Witness ==
    /\ targets = <<<<<<"a", ":", "b">>>>>>
    /\ actions = <<<<"m", "a", "i", "l", ":">>, <<"m", "a", "i", "l", ":", "a", ":", "b">>>>

\* The body holds the token, and the body has a line that begins with it.
C15_Contains(tok) ==
    \E i \in DOMAIN mailBody[1] : \E k \in DOMAIN mailBody[1][i] : mailBody[1][i][k] = tok

C15_HasLine(label) ==
    \E i \in DOMAIN mailBody[1] : mailBody[1][i] # <<>> /\ mailBody[1][i][1] = label

\* C15: the body formatEscalationMailBody returns holds the item identifier
\* and the severity; it has a "Reason:" block (followed by the reason) exactly
\* if the reason is not empty, and a "Related:" line exactly if the related
\* reference is not empty, each whatever the other is.
C15_MailBody ==
    mailBody # <<>> =>
        /\ C15_HasLine("Escalation ID: ") /\ C15_Contains(mailArgs.beadID)
        /\ C15_HasLine("Severity: ") /\ C15_Contains(mailArgs.severity)
        /\ C15_HasLine("Reason:") <=> mailArgs.reason # ""
        /\ mailArgs.reason # "" => C15_Contains(mailArgs.reason)
        /\ C15_HasLine("Related: ") <=> mailArgs.related # ""
        /\ mailArgs.related # "" => C15_Contains(mailArgs.related)

\* C15's case: a body for an empty reason and a related reference.
C15_Witness ==
    /\ mailBody # <<>>
    /\ mailArgs.reason = ""
    /\ mailArgs.related = "gt-xyz789"
    /\ C15_HasLine("Related: ")

\* C16: a Run call that has loaded an enabled configuration runs a cycle
\* before it first waits, and whenever the loop is at its wait state the last
\* cycle it began (the first one, or the one of the last tick it took) has run
\* to its end.
C16_CycleBeforeWaitAndPerTick ==
    /\ (pc # "idle" /\ loadErr = "nil" /\ config.Enabled) => everCycle
    /\ pc = "wait" => /\ everCycle
                      /\ cycleKind \in {"first", "tick"}
                      /\ cycleErr # "running"

\* C17: a cycle that claimed its item goes on, whether or not the context is
\* cancelled or the stop channel closed meanwhile, to call ProcessMR and then
\* to issue the reconcile call (the close, or the update back to open) for the
\* claimed item; Run is back at its select, or has returned, only after that.
C17_ClaimedCycleCompletes ==
    (cycleKind # "none" /\ Len(calls) >= 2 /\ calls[2].op = "Update" /\ calls[2].ok) =>
        /\ pc \in {"process", "handle", "wait", "returned"}
        /\ pc \in {"process", "handle"} => runResult = "none"
        /\ pc # "process" => Len(calls) >= 3 /\ calls[3] = ProcessCall(calls[2].id)
        /\ CycleOver =>
             /\ Len(calls) = 4
             /\ calls[4].id = calls[2].id
             /\ \/ calls[4].op = "CloseWithReason"
                \/ calls[4].op = "Update" /\ calls[4].arg = <<"open">>

\* C17's case: the context was cancelled after the first cycle had passed its
\* context check, and the cycle went on to close the item it had claimed.
C17_Witness ==
    /\ CycleOver
    /\ cycleKind = "first"
    /\ ctxDone
    /\ Len(calls) = 4
    /\ calls[1].op = "ReadyWithType"
    /\ calls[4].op = "CloseWithReason"

\* C18: the cycles of one engine do not overlap: a ready query is issued only
\* when no claimed item awaits its pipeline or its reconcile call, so at every
\* instant at most one item is claimed and not yet reconciled; that item is
\* the cycle's mr, it is in_progress, and the loop is inside its processOnce.
C18_OneItemDriven ==
    /\ Cardinality(driving) <= 1
    /\ pc \in {"check", "query", "claim"} => driving = {}
    /\ \A i \in driving : /\ status[i] = "in_progress"
                          /\ mr = <<i>>
                          /\ pc \in {"process", "handle"}

\* C18's case: a tick cycle drives the second item while the first, which an
\* earlier cycle could not reopen, is still in_progress.
C18_Witness ==
    /\ cycleKind = "tick"
    /\ driving = {2}
    /\ status[1] = "in_progress"

\* C19, as stated: a tick that fires while a cycle is running is not held;
\* the cycle after an overrunning cycle starts only from a tick that fired
\* after that cycle had finished, never from one that fired during it and
\* never from one still older (a burst); stated for the runs in which no
\* shutdown was asked for.
C19_TicksDuringCycleNotHeld ==
    (~ctxDone /\ ~stopClosed) => tickTaken \in {"none", "wait"}

\* C19: ticker.C holds at most one tick, so of the ticks that fire while a
\* cycle is running the first is held and the others are dropped; the cycle
\* after it can start at once from the held tick, and every tick cycle starts
\* from a tick that fired during the cycle before it or after that cycle had
\* finished, never from an older one: no burst of cycles follows an overrun.
C19_OneTickHeld ==
    /\ Len(tickC) <= 1
    /\ \A i \in DOMAIN tickC : tickC[i] \in {"cycle", "wait"}
    /\ cycleKind = "tick" <=> tickTaken \in {"cycle", "wait"}
    /\ cycleKind \in {"none", "first"} <=> tickTaken = "none"

\* C19's case: a cycle that began at once from the tick held during the
\* cycle before it is running, and a tick that fired during it is held.
C19_Witness ==
    /\ cycleKind = "tick"
    /\ tickTaken = "cycle"
    /\ pc = "handle"
    /\ tickC = <<"cycle">>

\* C20: every step that changes the status of an item takes it from open to
\* in_progress (the claim of the cycle's mr), from in_progress to closed (the
\* close after a successful ProcessMR) or from in_progress to open (the reopen
\* after a failed one); the item a cycle is about to claim is open, and an
\* item that is closed stays closed and is not claimed.
C20_StatusTransitions ==
    [][\A i \in Items :
         /\ status'[i] # status[i] =>
              /\ mr = <<i>>
              /\ \/ /\ pc = "claim"
                    /\ status[i] = "open" /\ status'[i] = "in_progress"
                 \/ /\ pc = "handle" /\ result[1].Success
                    /\ status[i] = "in_progress" /\ status'[i] = "closed"
                 \/ /\ pc = "handle" /\ ~result[1].Success
                    /\ status[i] = "in_progress" /\ status'[i] = "open"
         /\ (pc = "claim" /\ mr = <<i>>) => status[i] = "open"
         /\ status[i] = "closed" => status'[i] = "closed" /\ i \notin driving'
      ]_vars

\* C20's case: a tick cycle found the first item closed, left it closed and
\* claimed the second item.
C20_Witness ==
    /\ cycleKind = "tick"
    /\ status0[1] = "closed"
    /\ status[1] = "closed"
    /\ driving = {2}

\* The kinds a result is of: success, conflict, tests-failed, other-error.
C21_Kinds(res) ==
    {k \in {"success", "conflict", "tests-failed", "other-error"} :
       \/ k = "success" /\ res.Success
       \/ k = "conflict" /\ res.Conflict
       \/ k = "tests-failed" /\ res.TestsFailed
       \/ k = "other-error" /\ ~res.Success /\ ~res.Conflict /\ ~res.TestsFailed
                            /\ res.Error # ""}

\* C21: the result ProcessMR returned is of exactly one of the kinds success,
\* conflict, tests-failed and other-error: no two of Success, Conflict and
\* TestsFailed are set, a failure with neither Conflict nor TestsFailed
\* carries an error text, and MergeCommit is set only in a success.
C21_ResultIsOfOneKind ==
    result # <<>> =>
        /\ Cardinality(C21_Kinds(result[1])) = 1
        /\ ~(result[1].Success /\ result[1].Conflict)
        /\ ~(result[1].Success /\ result[1].TestsFailed)
        /\ ~(result[1].Conflict /\ result[1].TestsFailed)
        /\ result[1].MergeCommit # "" => result[1].Success

\* C21's case: ProcessMR as the source has it returned for an item whose
\* description carries the MR fields.
C21_Witness ==
    /\ result # <<>>
    /\ pipeline = "placeholder"
    /\ hasFields[mr[1]]
    /\ C21_Kinds(result[1]) = {"other-error"}

\* C22: for a claimed item whose description lacks the MR fields ProcessMR
\* returns a failure after the parse alone, no later stage having run, and
\* the cycle then issues, through handleFailure, the update of the item to
\* open as its one reconcile call.
C22_MissingFieldsFailFast ==
    (result # <<>> /\ ~hasFields[mr[1]]) =>
        /\ ~result[1].Success
        /\ result[1].MergeCommit = ""
        /\ result[1].Error # ""
        /\ stages = <<"parse">>
        /\ CycleOver =>
             /\ Len(calls) = 4
             /\ calls[4].op = "Update"
             /\ calls[4].id = mr[1]
             /\ calls[4].arg = <<"open">>
             /\ calls[4].ok => status[mr[1]] = "open"

\* C22's case: a cycle of the engine as the source has it reopened an item
\* without MR fields.
C22_Witness ==
    /\ CycleOver
    /\ pipeline = "placeholder"
    /\ mr # <<>>
    /\ ~hasFields[mr[1]]
    /\ stages = <<"parse">>
    /\ Len(calls) = 4
    /\ calls[4] = UpdateCall(mr[1], "open", TRUE)

\* The test attempts among the stages of the last ProcessMR call.
C23_Attempts == SelectSeq(stages, LAMBDA x : x \in {"test:pass", "test:fail"})

C24_Strategies == {"assign_back", "auto_rebase"}

\* C24: LoadConfig takes whatever string on_conflict holds, without an error,
\* and under a strategy that is none of the named ones a cycle whose ProcessMR
\* failed issues, as under assign_back, the update of the item to open as its
\* reconcile call; the handler returns and the cycle ends without an error,
\* whether or not the tracker took the update.
C24_UnknownStrategyReopens ==
    /\ (pc # "idle" /\ doc.kind = "section" /\ doc.mq.OnConflict # <<>>
          /\ doc.mq.PollInterval = <<>>) =>
         /\ loadErr = "nil"
         /\ config.OnConflict = doc.mq.OnConflict[1]
    /\ (CycleOver /\ config.OnConflict \notin C24_Strategies
          /\ result # <<>> /\ ~result[1].Success) =>
         /\ Len(calls) = 4
         /\ calls[4].op = "Update" /\ calls[4].id = mr[1] /\ calls[4].arg = <<"open">>
         /\ calls[4].ok => status[mr[1]] = "open"
         /\ cycleErr = "nil"
         /\ runResult \in {"none", "nil"}

\* C24's case: under on_conflict "bogus" a failed item was reopened and the
\* loop is back at its select.
C24_Witness ==
    /\ pc = "wait"
    /\ config.OnConflict = "bogus"
    /\ loadErr = "nil"
    /\ result # <<>>
    /\ ~result[1].Success
    /\ calls[4] = UpdateCall(mr[1], "open", TRUE)
    /\ status[mr[1]] = "open"

\* The cycle claimed its item and the tracker took the claim and the reopen.
C25_ClaimedAndReopened ==
    /\ Len(calls) = 4
    /\ calls[2].op = "Update" /\ calls[2].ok
    /\ calls[4] = UpdateCall(mr[1], "open", TRUE)

\* With ProcessMR as the source has it, in every cycle: the item claimed is
\* the head of the ready items of the store the cycle began with and no other
\* item is named by an update; a cycle that claimed reopens; if the tracker
\* took both updates the store is at the end of the cycle as it was at its
\* beginning.
C25_CycleRestoresStore ==
    pipeline = "placeholder" =>
        /\ mr # <<>> =>
             /\ mr[1] = ReadyWithType(status0)[1]
             /\ \A i \in DOMAIN calls : calls[i].op \in Mutations => calls[i].id = mr[1]
        /\ (CycleOver /\ Len(calls) >= 2 /\ calls[2].ok) =>
             /\ Len(calls) = 4
             /\ calls[4].op = "Update" /\ calls[4].id = mr[1] /\ calls[4].arg = <<"open">>
        /\ (CycleOver /\ C25_ClaimedAndReopened) => status = status0

\* At the step that begins the next cycle after such a cycle, the item the
\* last cycle claimed is the head of the ready items again, as it is for as
\* long as the loop waits.
C25_HeadIsReadyAgain ==
    (pipeline = "placeholder" /\ pc = "wait" /\ C25_ClaimedAndReopened) =>
        /\ ReadyWithType(status')[1] = mr[1]
        /\ pc' = "check" => /\ status0' = status0
                            /\ ReadyWithType(status0')[1] = mr[1]

\* C25: with ProcessMR as the source has it and the tracker taking the claim
\* and the reopen, the claimed item is reopened in its cycle and heads the
\* ready list of the next cycle, which claims it again; an item behind it is
\* not claimed.
C25_HeadOfLineBlocking == [](C25_CycleRestoresStore) /\ [][C25_HeadIsReadyAgain]_vars

\* C25's case: a tick cycle claimed and reopened the first item once more,
\* the second item being open behind it all along.
C25_Witness ==
    /\ pipeline = "placeholder"
    /\ cycleKind = "tick"
    /\ CycleOver
    /\ C25_ClaimedAndReopened
    /\ mr = <<1>>
    /\ Len(readyMRs) >= 2
    /\ readyMRs[2] = 2
    /\ status[2] = "open"

\* A tick cycle that began with the context cancelled has issued no call and
\* has returned, if it has, without an error and with the store untouched.
C26_CancelledTickCycle ==
    (cycleKind = "tick" /\ sigAtTick.ctx) =>
        /\ calls = <<>>
        /\ pc \in {"check", "wait", "returned"}
        /\ cycleErr = IF pc = "check" THEN "running" ELSE "nil"
        /\ status = status0

\* A cycle, the first one of Run included, that begins with the context
\* cancelled begins with no call issued; the context stays cancelled; and
\* processOnce leaves its context check under a cancelled context by
\* returning nil, with no call issued and the store untouched.
C26_CancelledCycleStep ==
    /\ ctxDone => ctxDone'
    /\ (ctxDone /\ pc \in {"idle", "wait"} /\ pc' = "check") =>
         calls' = <<>> /\ cycleErr' = "running"
    /\ (ctxDone /\ pc = "check" /\ pc' # "check") =>
         /\ pc' = "wait"
         /\ calls' = <<>>
         /\ cycleErr' = "nil"
         /\ everCall' = everCall
         /\ status' = status

\* C26: a cycle that starts when the context is already cancelled, the first
\* cycle of a Run called with a cancelled context included, issues no tracker
\* call and returns no error.
C26_CancelledCycleIsSilent == [](C26_CancelledTickCycle) /\ [][C26_CancelledCycleStep]_vars

\* C26's case: the first cycle of Run returned nil under a cancelled context,
\* and the engine has issued no tracker call.
C26_Witness ==
    /\ cycleKind = "first"
    /\ pc = "wait"
    /\ ctxDone
    /\ cycleErr = "nil"
    /\ calls = <<>>
    /\ ~everCall

\* C27: a LoadConfig call that fails on poll_interval leaves PollInterval as
\* it was and every other field at the value of its key in the section, if
\* the key is there, and as it was otherwise; a call that fails on reading the
\* file, on the document or on the section leaves the configuration as it was.
C27_NotAtomicOnError ==
    [][(pc = "idle" /\ loadErr' # loadErr) =>
         /\ doc.kind = "unreadable" => loadErr' = "reading config"
         /\ doc.kind = "badjson" => loadErr' = "parsing config"
         /\ doc.kind = "badsection" => loadErr' = "parsing merge_queue config"
         /\ doc.kind \in {"unreadable", "badjson", "badsection"} => config' = config
         /\ loadErr' = "invalid poll_interval" =>
              /\ doc.kind = "section" /\ doc.mq.PollInterval # <<>>
              /\ config'.PollInterval = config.PollInterval
              /\ \A k \in Keys \ {"PollInterval"} :
                   config'[k] = IF doc.mq[k] # <<>> THEN doc.mq[k][1] ELSE config[k]
      ]_vars

\* C27's case: the call failed on poll_interval; the interval is the 90 s of
\* the earlier load, the target branch is the section's, and run_tests, which
\* the section does not name, is as the earlier load left it.
C27_Witness ==
    /\ loadErr = "invalid poll_interval"
    /\ doc.mq.TargetBranch = <<"release">>
    /\ doc.mq.RunTests = <<>>
    /\ config.TargetBranch = "release"
    /\ config.RunTests = FALSE
    /\ config.PollInterval = 90 * Second
====
